---- MODULE Spec2Model ----
(***************************************************************************)
(* TTD-Registration: identity-number validation (Verhoeff), masking, the   *)
(* PII cipher and the team registration handler.                           *)
(*                                                                         *)
(* A JavaScript string is modelled as what it is: a sequence of UTF-16     *)
(* code units (naturals).  "2" is <<50>>, " " is <<32>>, "*" is <<42>>.    *)
(***************************************************************************)
EXTENDS Integers, Sequences, FiniteSets, TLC

VARIABLES
    vIn,      \* argument string of the pending / last validator-module call
    vRet,     \* its result: NoCall, or a record [fn |-> ..., ...]
    ENCRYPTION_KEY, \* the secret string the encryption module read at load
    cText,    \* plaintext handed to encrypt
    cEnc,     \* what encrypt did: NoCall, a returned string or a thrown error
    cArg,     \* the string handed to decrypt
    cHow,     \* how cArg was derived from encrypt's result
    cDec,     \* what decrypt did: NoCall, a returned string or a thrown error
    envKey,   \* process.env.ENCRYPTION_KEY as it is now
    cRandom,  \* the values crypto.randomBytes returned to encrypt, in order
    cEnc2,    \* what a second encrypt call on the same plaintext did
    cKeys,    \* the keys getKey() returned to encrypt and decrypt calls
    cHash,    \* what hash did
    cLog,     \* what the encryption module wrote with console.error
    teams,    \* the Team collection: the set of stored team documents
    req,      \* per request slot: where the POST /api/teams handler stands
    outbox,   \* notifications the handlers have dispatched
    adm       \* the last verify or delete request and its response

validatorVars == <<vIn, vRet>>
processVars == <<envKey, cRandom, cEnc2, cKeys, cHash, cLog>>
cipherVars == <<ENCRYPTION_KEY, cText, cEnc, cArg, cHow, cDec, processVars>>
registerVars == <<teams, req, outbox, adm>>
vars == <<vIn, vRet, ENCRYPTION_KEY, cText, cEnc, cArg, cHow, cDec,
          envKey, cRandom, cEnc2, cKeys, cHash, cLog, teams, req, outbox,
          adm>>

(***************************************************************************)
(* Bounds of the model                                                     *)
(***************************************************************************)
MaxTail == 2        \* free characters appended to a fixed prefix
MaxVisible == 5     \* largest visibleDigits argument tried for maskAadhaar
MaxText == 1        \* code units of a plaintext handed to encrypt
NumIVs == 2         \* distinct values the random IV source may return
MaxParts == 5       \* colon-separated parts of a reshaped blob

(***************************************************************************)
(* Characters                                                              *)
(***************************************************************************)
CH_0 == 48        \* '0'
CH_1 == 49        \* '1'
CH_STAR == 42     \* '*'
CH_COLON == 58    \* ':'
SP == <<32>>      \* " "
TAB == <<9>>      \* "\t"
NBSP == <<160>>   \* "\u00a0"

\* "0123..." written as <<0,1,2,3>> -> code units
Str(ds) == [i \in 1..Len(ds) |-> CH_0 + ds[i]]

\* ECMAScript \s : WhiteSpace and LineTerminator code units
WhiteSpace ==
    {9, 10, 11, 12, 13, 32, 160, 5760, 8232, 8233, 8239, 8287, 12288, 65279}
        \cup (8192..8202)

IsDigit(c) == c \in CH_0..(CH_0 + 9)

\* parseInt of a one-character decimal string
parseInt(c) == c - CH_0

\* only the space character is removed
StripWs_SpacesOnly(s) == SelectSeq(s, LAMBDA c : c # 32)

\* String(x).replace(/\s/g, '')
StripWs(s) == SelectSeq(s, LAMBDA c : c \notin WhiteSpace)

RECURSIVE Repeat(_, _)
\* 'c'.repeat(n)
Repeat(c, n) == IF n <= 0 THEN <<>> ELSE <<c>> \o Repeat(c, n - 1)

\* s.slice(start) with one argument: a negative start counts from the end,
\* and -0 is 0, so slice(-0) is the whole string.
Slice(s, start) ==
    LET len  == Len(s)
        from == IF start < 0
                THEN (IF len + start > 0 THEN len + start ELSE 0)
                ELSE (IF start < len THEN start ELSE len)
    IN  SubSeq(s, from + 1, len)

(***************************************************************************)
(* Verhoeff tables (0-based in the source, 1-based here: d[c+1][x+1])      *)
(***************************************************************************)
d == <<
    <<0, 1, 2, 3, 4, 5, 6, 7, 8, 9>>,
    <<1, 2, 3, 4, 0, 6, 7, 8, 9, 5>>,
    <<2, 3, 4, 0, 1, 7, 8, 9, 5, 6>>,
    <<3, 4, 0, 1, 2, 8, 9, 5, 6, 7>>,
    <<4, 0, 1, 2, 3, 9, 5, 6, 7, 8>>,
    <<5, 9, 8, 7, 6, 0, 4, 3, 2, 1>>,
    <<6, 5, 9, 8, 7, 1, 0, 4, 3, 2>>,
    <<7, 6, 5, 9, 8, 2, 1, 0, 4, 3>>,
    <<8, 7, 6, 5, 9, 3, 2, 1, 0, 4>>,
    <<9, 8, 7, 6, 5, 4, 3, 2, 1, 0>> >>

p == <<
    <<0, 1, 2, 3, 4, 5, 6, 7, 8, 9>>,
    <<1, 5, 7, 6, 2, 8, 3, 0, 9, 4>>,
    <<5, 8, 0, 3, 7, 9, 6, 1, 4, 2>>,
    <<8, 9, 1, 6, 0, 4, 3, 5, 2, 7>>,
    <<9, 4, 5, 3, 1, 2, 6, 8, 7, 0>>,
    <<4, 2, 8, 6, 5, 7, 3, 9, 0, 1>>,
    <<2, 7, 9, 3, 8, 0, 6, 4, 1, 5>>,
    <<7, 0, 4, 6, 9, 1, 3, 2, 5, 8>> >>

\* num.split('').reverse()
Reverse(s) == [i \in 1..Len(s) |-> s[Len(s) + 1 - i]]

\* c after a table lookup with an index that is no digit: undefined
UndefinedC == 0 - 1
\* the outcome of the loop when it indexed d with undefined: a TypeError
TypeErrorC == 0 - 2

RECURSIVE VerhoeffLoop(_, _, _, _)
\* for (i = 0; i < myArray.length; i++) c = d[c][p[(i + off) % 8][parseInt(myArray[i])]]
VerhoeffLoop(myArray, i, c, off) ==
    IF i >= Len(myArray) THEN c
    ELSE IF c = UndefinedC THEN TypeErrorC          \* d[undefined][...] throws
    ELSE IF ~IsDigit(myArray[i + 1])                \* parseInt gives NaN,
    THEN VerhoeffLoop(myArray, i + 1, UndefinedC, off)  \* p[..][NaN] undefined
    ELSE VerhoeffLoop(myArray, i + 1,
            d[c + 1][p[((i + off) % 8) + 1][parseInt(myArray[i + 1]) + 1] + 1],
            off)

\* verhoeffValidate throws instead of returning
verhoeffValidateThrows(num) == VerhoeffLoop(Reverse(num), 0, 0, 0) = TypeErrorC

\* the loop stops one element early: the first digit is not folded in
verhoeffValidate_ShortLoop(num) ==
    VerhoeffLoop(SubSeq(Reverse(num), 1, Len(num) - 1), 0, 0, 0) = 0

RECURSIVE PlainLoop(_, _, _)
\* the loop with the same permutation, p[0], at every position
PlainLoop(myArray, i, c) ==
    IF i >= Len(myArray) THEN c
    ELSE PlainLoop(myArray, i + 1,
            d[c + 1][p[1][parseInt(myArray[i + 1]) + 1] + 1])

verhoeffValidate_NoPermutation(num) == PlainLoop(Reverse(num), 0, 0) = 0

verhoeffValidate_NoReverse(num) == VerhoeffLoop(num, 0, 0, 0) = 0

verhoeffValidate_Offset(num) == VerhoeffLoop(Reverse(num), 0, 0, 1) = 0

verhoeffValidate(num) == VerhoeffLoop(Reverse(num), 0, 0, 0) = 0

verhoeffGenerate(num) ==
    LET c == VerhoeffLoop(Reverse(num), 0, 0, 1)
    IN  <<CH_0 + ((10 - c) % 10)>>

(***************************************************************************)
(* validateAadhaar                                                         *)
(***************************************************************************)
MsgRequired  == "Aadhaar number is required"
MsgLength    == "Aadhaar must be exactly 12 digits"
MsgDigits    == "Aadhaar must contain only digits"
MsgSame      == "Invalid Aadhaar pattern (all same digits)"
MsgPattern   == "Invalid Aadhaar pattern (sequential or test number)"
MsgFirst     == "Invalid Aadhaar format (cannot start with 0 or 1)"
MsgChecksum  == "Invalid Aadhaar checksum (Verhoeff algorithm failed)"
MsgValid     == "Valid Aadhaar number"

DenyList == {
    Str(<<1, 2, 3, 4, 5, 6, 7, 8, 9, 0, 1, 2>>),
    Str(<<0, 1, 2, 3, 4, 5, 6, 7, 8, 9, 0, 1>>),
    Str(<<0, 9, 8, 7, 6, 5, 4, 3, 2, 1, 0, 9>>),
    Str(<<1, 1, 1, 1, 1, 1, 1, 1, 1, 1, 1, 1>>),
    Str(<<0, 0, 0, 0, 0, 0, 0, 0, 0, 0, 0, 0>>) }

\* /^\d{12}$/.test(a)
AllDigits12(a) == Len(a) = 12 /\ \A i \in 1..12 : IsDigit(a[i])

\* /^(\d)\1{11}$/.test(a)
AllSame12(a) == AllDigits12(a) /\ \A i \in 2..12 : a[i] = a[1]

validateAadhaar_NoFirstDigitRule(aadhaar0) ==
    LET aadhaar == StripWs(aadhaar0) IN
    IF aadhaar = <<>> THEN [valid |-> FALSE, message |-> MsgRequired]
    ELSE IF Len(aadhaar) # 12 THEN [valid |-> FALSE, message |-> MsgLength]
    ELSE IF ~AllDigits12(aadhaar) THEN [valid |-> FALSE, message |-> MsgDigits]
    ELSE IF AllSame12(aadhaar) THEN [valid |-> FALSE, message |-> MsgSame]
    ELSE IF aadhaar \in DenyList THEN [valid |-> FALSE, message |-> MsgPattern]
    ELSE IF ~verhoeffValidate(aadhaar)
         THEN [valid |-> FALSE, message |-> MsgChecksum]
    ELSE [valid |-> TRUE, message |-> MsgValid]

validateAadhaar_NoPatternChecks(aadhaar0) ==
    LET aadhaar == StripWs(aadhaar0) IN
    IF aadhaar = <<>> THEN [valid |-> FALSE, message |-> MsgRequired]
    ELSE IF Len(aadhaar) # 12 THEN [valid |-> FALSE, message |-> MsgLength]
    ELSE IF ~AllDigits12(aadhaar) THEN [valid |-> FALSE, message |-> MsgDigits]
    ELSE IF aadhaar[1] = CH_0 \/ aadhaar[1] = CH_1
         THEN [valid |-> FALSE, message |-> MsgFirst]
    ELSE IF ~verhoeffValidate(aadhaar)
         THEN [valid |-> FALSE, message |-> MsgChecksum]
    ELSE [valid |-> TRUE, message |-> MsgValid]

validateAadhaar_FirstBeforePattern(aadhaar0) ==
    LET aadhaar == StripWs(aadhaar0) IN
    IF aadhaar = <<>> THEN [valid |-> FALSE, message |-> MsgRequired]
    ELSE IF Len(aadhaar) # 12 THEN [valid |-> FALSE, message |-> MsgLength]
    ELSE IF ~AllDigits12(aadhaar) THEN [valid |-> FALSE, message |-> MsgDigits]
    ELSE IF aadhaar[1] = CH_0 \/ aadhaar[1] = CH_1
         THEN [valid |-> FALSE, message |-> MsgFirst]
    ELSE IF AllSame12(aadhaar) THEN [valid |-> FALSE, message |-> MsgSame]
    ELSE IF aadhaar \in DenyList THEN [valid |-> FALSE, message |-> MsgPattern]
    ELSE IF ~verhoeffValidate(aadhaar)
         THEN [valid |-> FALSE, message |-> MsgChecksum]
    ELSE [valid |-> TRUE, message |-> MsgValid]

\* validateAadhaar without the test that all 12 characters are digits
validateAadhaar_NoDigitsCheck(aadhaar0) ==
    LET aadhaar == StripWs(aadhaar0) IN
    IF aadhaar = <<>> THEN [valid |-> FALSE, message |-> MsgRequired]
    ELSE IF Len(aadhaar) # 12 THEN [valid |-> FALSE, message |-> MsgLength]
    ELSE IF AllSame12(aadhaar) THEN [valid |-> FALSE, message |-> MsgSame]
    ELSE IF aadhaar \in DenyList THEN [valid |-> FALSE, message |-> MsgPattern]
    ELSE IF aadhaar[1] = CH_0 \/ aadhaar[1] = CH_1
         THEN [valid |-> FALSE, message |-> MsgFirst]
    ELSE IF verhoeffValidateThrows(aadhaar)
         THEN [status |-> "throw", error |-> "TypeError"]
    ELSE IF ~verhoeffValidate(aadhaar)
         THEN [valid |-> FALSE, message |-> MsgChecksum]
    ELSE [valid |-> TRUE, message |-> MsgValid]

\* the function has no try block: what verhoeffValidate throws, it throws
validateAadhaar(aadhaar0) ==
    LET aadhaar == StripWs(aadhaar0) IN
    IF aadhaar = <<>> THEN [valid |-> FALSE, message |-> MsgRequired]
    ELSE IF Len(aadhaar) # 12 THEN [valid |-> FALSE, message |-> MsgLength]
    ELSE IF ~AllDigits12(aadhaar) THEN [valid |-> FALSE, message |-> MsgDigits]
    ELSE IF AllSame12(aadhaar) THEN [valid |-> FALSE, message |-> MsgSame]
    ELSE IF aadhaar \in DenyList THEN [valid |-> FALSE, message |-> MsgPattern]
    ELSE IF aadhaar[1] = CH_0 \/ aadhaar[1] = CH_1
         THEN [valid |-> FALSE, message |-> MsgFirst]
    ELSE IF verhoeffValidateThrows(aadhaar)
         THEN [status |-> "throw", error |-> "TypeError"]
    ELSE IF ~verhoeffValidate(aadhaar)
         THEN [valid |-> FALSE, message |-> MsgChecksum]
    ELSE [valid |-> TRUE, message |-> MsgValid]

(***************************************************************************)
(* maskAadhaar                                                             *)
(***************************************************************************)
maskAadhaar(aadhaar0, visibleDigits) ==
    IF aadhaar0 = <<>> THEN <<>>
    ELSE LET aadhaar == StripWs(aadhaar0) IN
         IF Len(aadhaar) < visibleDigits
         THEN Repeat(CH_STAR, Len(aadhaar))
         ELSE Repeat(CH_STAR, Len(aadhaar) - visibleDigits)
                  \o Slice(aadhaar, 0 - visibleDigits)

(***************************************************************************)
(* Encodings used by the encryption module                                 *)
(***************************************************************************)
IsHighSurrogate(u) == u \in 55296..56319     \* D800..DBFF
IsLowSurrogate(u)  == u \in 56320..57343     \* DC00..DFFF
IsContinuation(b)  == b \in 128..191

RECURSIVE Utf8EncodeFrom(_, _)
\* Node's 'utf8' string -> bytes conversion: 1 to 4 bytes per code point; a
\* surrogate that is not part of a pair is written as U+FFFD (EF BF BD).
Utf8EncodeFrom(s, i) ==
    IF i > Len(s) THEN <<>>
    ELSE LET u == s[i] IN
         IF u < 128 THEN <<u>> \o Utf8EncodeFrom(s, i + 1)
         ELSE IF u < 2048
              THEN <<192 + (u \div 64), 128 + (u % 64)>> \o Utf8EncodeFrom(s, i + 1)
         ELSE IF IsHighSurrogate(u) /\ i < Len(s) /\ IsLowSurrogate(s[i + 1])
              THEN LET cp == 65536 + (u - 55296) * 1024 + (s[i + 1] - 56320) IN
                   <<240 + (cp \div 262144), 128 + ((cp \div 4096) % 64),
                     128 + ((cp \div 64) % 64), 128 + (cp % 64)>>
                       \o Utf8EncodeFrom(s, i + 2)
         ELSE IF IsHighSurrogate(u) \/ IsLowSurrogate(u)
              THEN <<239, 191, 189>> \o Utf8EncodeFrom(s, i + 1)
         ELSE <<224 + (u \div 4096), 128 + ((u \div 64) % 64), 128 + (u % 64)>>
                  \o Utf8EncodeFrom(s, i + 1)

Utf8Encode(s) == Utf8EncodeFrom(s, 1)

RECURSIVE Utf8DecodeFrom(_, _)
\* Node's bytes -> 'utf8' string conversion.  Well-formed sequences decode to
\* their code point (a surrogate pair above U+FFFF); a byte that starts no
\* well-formed sequence decodes to U+FFFD.
Utf8DecodeFrom(b, i) ==
    IF i > Len(b) THEN <<>>
    ELSE LET b1 == b[i]
             n  == Len(b) - i
             c2 == n >= 1 /\ IsContinuation(b[i + 1])
             c3 == n >= 2 /\ c2 /\ IsContinuation(b[i + 2])
             c4 == n >= 3 /\ c3 /\ IsContinuation(b[i + 3])
             cp3 == (b1 - 224) * 4096 + (b[i + 1] - 128) * 64 + (b[i + 2] - 128)
             cp4 == (b1 - 240) * 262144 + (b[i + 1] - 128) * 4096
                        + (b[i + 2] - 128) * 64 + (b[i + 3] - 128)
         IN
         IF b1 < 128 THEN <<b1>> \o Utf8DecodeFrom(b, i + 1)
         ELSE IF b1 \in 194..223 /\ c2
              THEN <<(b1 - 192) * 64 + (b[i + 1] - 128)>> \o Utf8DecodeFrom(b, i + 2)
         ELSE IF b1 \in 224..239 /\ c3 /\ cp3 >= 2048 /\ cp3 \notin 55296..57343
              THEN <<cp3>> \o Utf8DecodeFrom(b, i + 3)
         ELSE IF b1 \in 240..244 /\ c4 /\ cp4 \in 65536..1114111
              THEN <<55296 + ((cp4 - 65536) \div 1024),
                     56320 + ((cp4 - 65536) % 1024)>> \o Utf8DecodeFrom(b, i + 4)
         ELSE <<65533>> \o Utf8DecodeFrom(b, i + 1)

\* bytes decoded one code unit per byte ('latin1'), not as UTF-8
Latin1Decode(b) == b

Utf8Decode(b) == Utf8DecodeFrom(b, 1)

HexDigits == (48..57) \cup (97..102)        \* '0'..'9', 'a'..'f'

HexDigit(n) == IF n < 10 THEN 48 + n ELSE 87 + n

\* value of a hex character, -1 when it is none (upper and lower case count)
HexValue(ch) ==
    IF ch \in 48..57 THEN ch - 48
    ELSE IF ch \in 97..102 THEN ch - 87
    ELSE IF ch \in 65..70 THEN ch - 55
    ELSE 0 - 1

RECURSIVE ToHex(_)
\* buffer.toString('hex')
ToHex(b) ==
    IF b = <<>> THEN <<>>
    ELSE <<HexDigit(Head(b) \div 16), HexDigit(Head(b) % 16)>> \o ToHex(Tail(b))

\* Buffer.from(str, 'hex'): whole pairs of hex characters, up to the first
\* pair that is not hexadecimal
FromHex(h) ==
    LET pairs == Len(h) \div 2
        ok(k) == HexValue(h[2 * k - 1]) >= 0 /\ HexValue(h[2 * k]) >= 0
        n     == IF \A k \in 1..pairs : ok(k) THEN pairs
                 ELSE (CHOOSE k \in 1..pairs : ~ok(k) /\ \A j \in 1..(k - 1) : ok(j)) - 1
    IN  [k \in 1..n |-> HexValue(h[2 * k - 1]) * 16 + HexValue(h[2 * k])]

RECURSIVE Split(_, _)
\* str.split(sep) for a one-character separator
Split(s, sep) ==
    IF \A i \in 1..Len(s) : s[i] # sep THEN <<s>>
    ELSE LET k == CHOOSE i \in 1..Len(s) :
                      s[i] = sep /\ \A j \in 1..(i - 1) : s[j] # sep
         IN  <<SubSeq(s, 1, k - 1)>> \o Split(SubSeq(s, k + 1, Len(s)), sep)

RECURSIVE Join(_, _)
\* parts.join(sep)
Join(parts, sep) ==
    IF parts = <<>> THEN <<>>
    ELSE IF Len(parts) = 1 THEN parts[1]
    ELSE parts[1] \o <<sep>> \o Join(Tail(parts), sep)

RECURSIVE SumSeq(_)
SumSeq(b) == IF b = <<>> THEN 0 ELSE Head(b) + SumSeq(Tail(b))

RECURSIVE Xor(_, _)
\* bitwise exclusive or of two bytes
Xor(a, b) ==
    IF a = 0 /\ b = 0 THEN 0
    ELSE (((a % 2) + (b % 2)) % 2) + 2 * Xor(a \div 2, b \div 2)

(***************************************************************************)
(* The encryption module                                                   *)
(***************************************************************************)
IV_LENGTH == 16
KEY_LENGTH == 32
TAG_LENGTH == 16

DEFAULT_KEY == <<100, 101, 102, 97, 117, 108, 116, 45, 107, 101, 121, 45, 99, 104, 97, 110, 103, 101, 45, 116, 104, 105, 115, 45, 49, 50, 51, 52, 53>>   \* 'default-key-change-this-12345'

\* const ENCRYPTION_KEY = process.env.ENCRYPTION_KEY || '<default>'
LoadEncryptionKey(env) == IF env = <<>> THEN DEFAULT_KEY ELSE env

\* str.padEnd(n, c)
PadEnd(s, n, c) == IF Len(s) >= n THEN s ELSE s \o Repeat(c, n - Len(s))

\* str.slice(0, n)
Slice0(s, n) == SubSeq(s, 1, IF Len(s) < n THEN Len(s) ELSE n)

\* getKey reading the environment at each call
getKey_FromEnv ==
    Utf8Encode(Slice0(PadEnd(LoadEncryptionKey(envKey), KEY_LENGTH, CH_0),
                      KEY_LENGTH))

getKey == Utf8Encode(Slice0(PadEnd(ENCRYPTION_KEY, KEY_LENGTH, CH_0), KEY_LENGTH))

\* AES-256-GCM is a primitive of the crypto library.  It is modelled by a
\* cipher of the same construction on a small scale: a pad that is a function
\* of key, IV and position (the AES counter blocks), xor-ed on the plaintext,
\* and a 16-byte tag that is a polynomial in the hash subkey over the
\* ciphertext bytes (GHASH, here over the prime field of 257 elements), masked
\* by the pad of block 0.
\* the pad bytes 1..n for (key, iv): 1..16 mask the tag, the rest the data
GcmPad(key, iv, n) ==
    LET ks == 3 * SumSeq(key) + 7 * SumSeq(iv) IN
    [j \in 1..n |->
        (ks + 13 * j + key[(j % Len(key)) + 1] + 5 * iv[(j % Len(iv)) + 1]) % 256]

HashSubkey(key) == 1 + (SumSeq(key) % 256)

RECURSIVE GHash(_, _, _, _)
GHash(ct, i, h, acc) ==
    IF i > Len(ct) THEN acc
    ELSE GHash(ct, i + 1, h, ((acc + ct[i]) * h) % 257)

GcmTag(key, pad, ct) ==
    LET h == HashSubkey(key)
        s == ((GHash(ct, 1, h, 0) + Len(ct)) * h) % 257
        t == (s + pad[1]) % 257
    IN  [j \in 1..TAG_LENGTH |->
            IF j = 1 THEN t \div 256
            ELSE IF j = 2 THEN t % 256
            ELSE pad[j]]

\* cipher.update / decipher.update: counter mode, the same both ways
GcmCrypt(pad, data) ==
    [i \in 1..Len(data) |-> Xor(data[i], pad[TAG_LENGTH + i])]

\* tag lengths setAuthTag accepts for GCM
ValidTagLengths == {4, 8, 12, 13, 14, 15, 16}

NotCalled == [status |-> "none"]
Return(v) == [status |-> "return", value |-> v]
Throw(e)  == [status |-> "throw", error |-> e]

\* encrypt's try block without the early return for an empty text
encryptTry_NoEmptyCheck(text, iv) ==
    LET key == getKey IN
    IF Len(key) # KEY_LENGTH THEN Throw("Invalid key length")
    ELSE LET data      == Utf8Encode(text)
             pad       == GcmPad(key, iv, TAG_LENGTH + Len(data))
             encrypted == GcmCrypt(pad, data)
             authTag   == GcmTag(key, pad, encrypted)
         IN  Return(ToHex(iv) \o <<CH_COLON>> \o ToHex(encrypted)
                        \o <<CH_COLON>> \o ToHex(authTag))

\* the body of encrypt's try block, with iv the bytes crypto.randomBytes drew
encryptTry(text, iv) ==
    IF text = <<>> THEN Return(<<>>)
    ELSE LET key == getKey IN
         IF Len(key) # KEY_LENGTH THEN Throw("Invalid key length")
         ELSE LET data      == Utf8Encode(text)
                  pad       == GcmPad(key, iv, TAG_LENGTH + Len(data))
                  encrypted == GcmCrypt(pad, data)
                  authTag   == GcmTag(key, pad, encrypted)
              IN  Return(ToHex(iv) \o <<CH_COLON>> \o ToHex(encrypted)
                             \o <<CH_COLON>> \o ToHex(authTag))

encrypt(text, iv) ==
    LET r == encryptTry(text, iv) IN
    IF r.status = "throw" THEN Throw("Failed to encrypt data") ELSE r

\* decrypt's try block without the check of the number of parts
decryptTry_ExtraPartsIgnored(encryptedText) ==
    IF encryptedText = <<>> THEN Return(<<>>)
    ELSE LET parts == Split(encryptedText, CH_COLON) IN
         IF Len(parts) < 3 THEN Throw("Invalid encrypted data format")
         ELSE LET iv        == FromHex(parts[1])
                  encrypted == parts[2]
                  authTag   == FromHex(parts[3])
                  key       == getKey
              IN
              IF Len(key) # KEY_LENGTH THEN Throw("Invalid key length")
              ELSE IF iv = <<>> THEN Throw("Invalid initialization vector")
              ELSE IF Len(authTag) \notin ValidTagLengths
                   THEN Throw("Invalid authentication tag length")
              ELSE LET data == FromHex(encrypted)
                       pad  == GcmPad(key, iv, TAG_LENGTH + Len(data))
                   IN
                   IF SubSeq(GcmTag(key, pad, data), 1, Len(authTag)) # authTag
                   THEN Throw("Unsupported state or unable to authenticate data")
                   ELSE Return(Utf8Decode(GcmCrypt(pad, data)))

\* decrypt's try block with a cipher mode that does not authenticate
decryptTry_Unauthenticated(encryptedText) ==
    IF encryptedText = <<>> THEN Return(<<>>)
    ELSE LET parts == Split(encryptedText, CH_COLON) IN
         IF Len(parts) # 3 THEN Throw("Invalid encrypted data format")
         ELSE LET iv        == FromHex(parts[1])
                  encrypted == parts[2]
                  key       == getKey
              IN
              IF Len(key) # KEY_LENGTH THEN Throw("Invalid key length")
              ELSE IF iv = <<>> THEN Throw("Invalid initialization vector")
              ELSE LET data == FromHex(encrypted)
                       pad  == GcmPad(key, iv, TAG_LENGTH + Len(data))
                   IN  Return(Utf8Decode(GcmCrypt(pad, data)))

\* the body of decrypt's try block
decryptTry(encryptedText) ==
    IF encryptedText = <<>> THEN Return(<<>>)
    ELSE LET parts == Split(encryptedText, CH_COLON) IN
         IF Len(parts) # 3 THEN Throw("Invalid encrypted data format")
         ELSE LET iv        == FromHex(parts[1])
                  encrypted == parts[2]
                  authTag   == FromHex(parts[3])
                  key       == getKey
              IN
              IF Len(key) # KEY_LENGTH THEN Throw("Invalid key length")
              ELSE IF iv = <<>> THEN Throw("Invalid initialization vector")
              ELSE IF Len(authTag) \notin ValidTagLengths
                   THEN Throw("Invalid authentication tag length")
              ELSE LET data == FromHex(encrypted)
                       pad  == GcmPad(key, iv, TAG_LENGTH + Len(data))
                   IN
                   IF SubSeq(GcmTag(key, pad, data), 1, Len(authTag)) # authTag
                   THEN Throw("Unsupported state or unable to authenticate data")
                   ELSE Return(Utf8Decode(GcmCrypt(pad, data)))

decryptCatch(r) ==
    IF r.status = "throw" THEN Throw("Failed to decrypt data") ELSE r

decrypt(encryptedText) == decryptCatch(decryptTry(encryptedText))

\* a console.error line: its label, the message of the Error object printed
\* after it, and the strings of the call (arguments, key) printed with them
LogLine(label, error, data) ==
    [label |-> label, error |-> error, data |-> data]

\* encrypt's catch block printing the plaintext as well
encryptLog_WithText(text, iv) ==
    LET r == encryptTry(text, iv) IN
    IF r.status = "throw"
    THEN <<LogLine("Encryption error:", r.error, <<text>>)>>
    ELSE <<>>

\* what encrypt writes to the console: console.error in its catch block
encryptLog(text, iv) ==
    LET r == encryptTry(text, iv) IN
    IF r.status = "throw"
    THEN <<LogLine("Encryption error:", r.error, <<>>)>>
    ELSE <<>>

\* what decrypt writes to the console: console.error in its catch block
decryptLog(encryptedText) ==
    LET r == decryptTry(encryptedText) IN
    IF r.status = "throw"
    THEN <<LogLine("Decryption error:", r.error, <<>>)>>
    ELSE <<>>

\* encrypt draws an IV and calls getKey() unless it returned '' at once
encryptDraws(text) == text # <<>>

\* decrypt calls getKey() once the blob has been split in three parts
decryptUsesKey(encryptedText) ==
    encryptedText # <<>> /\ Len(Split(encryptedText, CH_COLON)) = 3

\* SHA-256 is a primitive of the crypto library; it is modelled by a digest of
\* 32 bytes that depends on every byte of the data and on nothing else
Sha256(data) ==
    [i \in 1..32 |-> (SumSeq(data) * (2 * i + 1) + 17 * i + Len(data)) % 256]

hash(text) == ToHex(Sha256(Utf8Encode(text)))

(***************************************************************************)
(* The registration handler: POST /api/teams                               *)
(*                                                                         *)
(* Of a roster member the model keeps dob, id_number and mobile; the other *)
(* profile fields (name, gender, email, address, photo_path) are copied    *)
(* unchanged by the handler and are present and well-formed in every       *)
(* request tried.  A date is a record [year, month, date].                 *)
(***************************************************************************)
Slots == {"r1", "r2"}       \* requests in flight at the same time

Undefined == <<0 - 1>>      \* a property the request body does not have

DEFAULT_VISIBLE == 4

\* crypto.randomBytes(IV_LENGTH): the k-th value of the random source
RandomBytes(k) == [i \in 1..IV_LENGTH |-> (37 * k + 11 * i) % 256]

\* new Date() while the requests are served
Today == [year |-> 2025, month |-> 6, date |-> 15]

Max(a, b) == IF a > b THEN a ELSE b

\* value.trim()
RECURSIVE TrimStart(_)
TrimStart(s) ==
    IF s # <<>> /\ Head(s) \in WhiteSpace THEN TrimStart(Tail(s)) ELSE s

Trim(s) == Reverse(TrimStart(Reverse(TrimStart(s))))

\* the route's mask helper
mask(value, visible) ==
    Repeat(CH_STAR, Max(0, Len(value) - visible)) \o Slice(value, 0 - visible)

calculateAge(dob) ==
    LET t   == Today
        age == t.year - dob.year
    IN  IF \/ t.month < dob.month
           \/ (t.month = dob.month /\ t.date < dob.date)
        THEN age - 1
        ELSE age

NoResponse == [status |-> 0, message |-> "", member |-> 0, detail |-> ""]

\* res.status(status).json({ success, message })
Response(status, message) ==
    [status |-> status, message |-> message, member |-> 0, detail |-> ""]

\* a message that names member i (1-based) and, for a rejected identity
\* number, carries the validator's message
MemberResponse(message, i, detail) ==
    [status |-> 400, message |-> message, member |-> i, detail |-> detail]

NoBody == [team_name |-> <<>>, members_count |-> 0, consent_given |-> "",
           members |-> <<>>]

IdleRequest ==
    [pc |-> "idle", body |-> NoBody, seed |-> 0, draws |-> 0, i |-> 0,
     query |-> <<>>, processedMembers |-> <<>>, aadhaarSet |-> {},
     response |-> NoResponse]

\* no verify or delete request was made
NoAdmin == [op |-> "none", id |-> "", status |-> 0]

RegisterIdle ==
    /\ teams = {}
    /\ req = [s \in Slots |-> IdleRequest]
    /\ outbox = {}
    /\ adm = NoAdmin

\* the handler has answered: nothing more runs for this request
Respond(r, response) == [r EXCEPT !.pc = "done", !.response = response]

\* express-validator's teamValidation: validationResult(req).isEmpty()
validationResult(body) ==
    /\ Trim(body.team_name) # <<>>
    /\ body.members_count \in 10..15
    /\ body.consent_given = "true"
    /\ Len(body.members) \in 10..15

\* the loop body for member r.i up to its await: validation, the in-team
\* duplicate test and the encryption of the lookup key
LoopHead(r) ==
    LET m       == r.body.members[r.i]
        aadhaar == validateAadhaar(m.id_number)
        lookup  == encrypt(m.id_number, RandomBytes(r.seed + r.draws))
    IN  IF ~aadhaar.valid
        THEN Respond(r, MemberResponse("Member", r.i, aadhaar.message))
        ELSE IF m.id_number \in r.aadhaarSet
        THEN Respond(r, MemberResponse("Duplicate Aadhaar at member", r.i, ""))
        ELSE IF lookup.status = "throw"
        THEN Respond(r, Response(500, "Failed to register team"))
        ELSE [r EXCEPT !.pc = "findMember",
                       !.aadhaarSet = @ \cup {m.id_number},
                       !.query = lookup.value,
                       !.draws = @ + 1]

\* the object pushed on processedMembers for member m
ProcessedMember(m, age, id_enc, mobile_enc) ==
    [dob                 |-> m.dob,
     age                 |-> age,
     id_number_full      |-> m.id_number,
     mobile_full         |-> m.mobile,
     id_number_encrypted |-> id_enc,
     mobile_encrypted    |-> mobile_enc,
     id_number_masked    |-> mask(m.id_number, DEFAULT_VISIBLE),
     mobile_masked       |-> mask(m.mobile, DEFAULT_VISIBLE)]

\* the loop body for member r.i after the lookup answered, and on to the next
\* member's await or to the save
LoopTail(r, exists) ==
    LET m          == r.body.members[r.i]
        age        == calculateAge(m.dob)
        id_enc     == encrypt(m.id_number, RandomBytes(r.seed + r.draws))
        \* encrypt(undefined) and encrypt('') return '' and draw no IV
        mobile_enc == IF m.mobile = Undefined THEN Return(<<>>)
                      ELSE encrypt(m.mobile, RandomBytes(r.seed + r.draws + 1))
        drawn      == 1 + (IF m.mobile \in {Undefined, <<>>} THEN 0 ELSE 1)
    IN  IF exists
        THEN Respond(r, MemberResponse("Aadhaar of member already registered",
                                        r.i, ""))
        ELSE IF age < 5
        THEN Respond(r, MemberResponse("Member must be >= 5 years", r.i, ""))
        ELSE IF \/ id_enc.status = "throw"
                \/ mobile_enc.status = "throw"
                \/ m.mobile = Undefined      \* mask(undefined): TypeError
        THEN Respond(r, Response(500, "Failed to register team"))
        ELSE LET pushed == [r EXCEPT
                    !.processedMembers = Append(@,
                        ProcessedMember(m, age, id_enc.value, mobile_enc.value)),
                    !.draws = @ + drawn,
                    !.i = @ + 1]
             IN  IF pushed.i <= Len(r.body.members)
                 THEN LoopHead(pushed)
                 ELSE [pushed EXCEPT !.pc = "save"]

\* the paths of memberSchema among the fields modelled: a strict schema
\* drops every other field of the object it is given
MemberPaths ==
    {"dob", "age", "id_number_full", "mobile_full", "id_number_encrypted",
     "id_number_masked"}

\* a processed member cast to memberSchema
CastMember(pm) == [f \in MemberPaths |-> pm[f]]

\* new Team({...}) for request slot s
NewTeam(s, r) ==
    [_id               |-> s,
     team_name         |-> Trim(r.body.team_name),
     members_count     |-> r.body.members_count,
     members           |-> [k \in 1..Len(r.processedMembers) |->
                               CastMember(r.processedMembers[k])],
     submission_status |-> "pending",
     consent_given     |-> (r.body.consent_given = "true"),
     \* timestamps: true; in clock ticks since the document was inserted
     updatedAt         |-> 0]

\* required: a string path must be present and not empty
Required(v) == v # Undefined /\ v # <<>>

\* document validation of save()
ValidTeam(t) ==
    /\ Required(t.team_name)
    /\ t.members_count \in 10..15
    /\ Len(t.members) = t.members_count
    /\ \A k \in 1..Len(t.members) :
          /\ t.members[k].age >= 5
          /\ Required(t.members[k].id_number_encrypted)
          /\ Required(t.members[k].id_number_masked)
          /\ Required(t.members[k].id_number_full)
          /\ Required(t.members[k].mobile_full)

(***************************************************************************)
(* Inputs of the validator module                                          *)
(***************************************************************************)
TailChars == (CH_0..(CH_0 + 9)) \cup {32, 97}    \* digits, ' ', 'a'

Tails == UNION {[1..n -> TailChars] : n \in 0..MaxTail}

Prefixes == {
    <<>>,
    Str(<<2, 3, 4, 5, 6, 7, 8, 9, 0, 1>>),
    Str(<<2, 3, 4, 5>>) \o TAB \o Str(<<6, 7, 8, 9>>) \o SP
        \o Str(<<0, 1>>),
    Str(<<0, 1, 2, 3, 4, 5, 6, 7, 8, 9>>),
    Str(<<1, 2, 3, 4, 5, 6, 7, 8, 9, 0>>),
    Str(<<0, 9, 8, 7, 6, 5, 4, 3, 2, 1>>),
    Str(<<1, 1, 1, 1, 1, 1, 1, 1, 1, 1>>),
    Str(<<0, 0, 0, 0, 0, 0, 0, 0, 0, 0>>),
    Str(<<2, 2, 2, 2, 2, 2, 2, 2, 2, 2>>) }

Examples == {
    <<97, 98, 99>>,                                              \* "abc"
    Str(<<2, 3, 4, 5, 6, 7, 8, 9, 0, 1, 0, 7>>) \o NBSP }  \* trailing NBSP

Inputs == Examples \cup {pre \o t : pre \in Prefixes, t \in Tails}

NoCall == [fn |-> "none"]

\* no call of the process has drawn, used a key, hashed or logged anything
ProcessFresh ==
    /\ cRandom = <<>>
    /\ cEnc2 = NotCalled
    /\ cKeys = {}
    /\ cHash = NotCalled
    /\ cLog = <<>>

CipherIdle ==
    /\ ENCRYPTION_KEY = <<>>
    /\ cText = <<>>
    /\ cEnc = NoCall
    /\ cArg = <<>>
    /\ cHow = "none"
    /\ cDec = NoCall
    /\ envKey = <<>>
    /\ ProcessFresh

InitValidator ==
    /\ vIn \in Inputs
    /\ vRet = NoCall
    /\ CipherIdle
    /\ RegisterIdle

CallValidateAadhaar ==
    /\ vRet = NoCall
    /\ vRet' = [fn |-> "validateAadhaar", out |-> validateAadhaar(vIn)]
    /\ UNCHANGED <<vIn, cipherVars, registerVars>>

\* verhoeffGenerate on a body of 11 digits
CallVerhoeffGenerate ==
    /\ vRet = NoCall
    /\ Len(vIn) = 11
    /\ \A i \in 1..Len(vIn) : IsDigit(vIn[i])
    /\ vRet' = [fn |-> "verhoeffGenerate", out |-> verhoeffGenerate(vIn)]
    /\ UNCHANGED <<vIn, cipherVars, registerVars>>

CallMaskAadhaar ==
    /\ vRet = NoCall
    /\ \E visibleDigits \in 0..MaxVisible :
          vRet' = [fn |-> "maskAadhaar", visible |-> visibleDigits,
                   out |-> maskAadhaar(vIn, visibleDigits)]
    /\ UNCHANGED <<vIn, cipherVars, registerVars>>

\* after validateAadhaar accepted a number: validateAadhaar on that number
\* with one digit replaced by another digit
CallValidateAltered ==
    /\ vRet.fn = "validateAadhaar"
    /\ vRet.out.valid
    /\ \E pos \in 1..12, digit \in CH_0..(CH_0 + 9) :
          LET s       == StripWs(vIn)
              altered == [s EXCEPT ![pos] = digit]
          IN  /\ digit # s[pos]
              /\ vRet' = [fn |-> "validateAltered", arg |-> altered,
                          out |-> validateAadhaar(altered)]
    /\ UNCHANGED <<vIn, cipherVars, registerVars>>

\* the characters /\s/ matches that are put into an input
Blanks == {32, 9, 160}

\* s with the character ch put before position pos + 1
InsertAt(s, pos, ch) ==
    SubSeq(s, 1, pos) \o <<ch>> \o SubSeq(s, pos + 1, Len(s))

\* s without its character at position pos
RemoveAt(s, pos) == SubSeq(s, 1, pos - 1) \o SubSeq(s, pos + 1, Len(s))

\* the input itself and the strings one whitespace character away from it
Variants(s) ==
    {s} \cup {InsertAt(s, pos, ch) : pos \in 0..Len(s), ch \in Blanks}
        \cup {RemoveAt(s, pos) : pos \in {i \in 1..Len(s) : s[i] \in WhiteSpace}}

\* after validateAadhaar returned: validateAadhaar again, on the same input
\* or on one that differs from it in one whitespace character
CallValidateVariant ==
    /\ vRet.fn = "validateAadhaar"
    /\ \E variant \in Variants(vIn) :
          vRet' = [fn |-> "validateVariant", arg |-> variant,
                   first |-> vRet.out, out |-> validateAadhaar(variant)]
    /\ UNCHANGED <<vIn, cipherVars, registerVars>>

\* verhoeffValidate on a 12-digit string it accepts with two adjacent,
\* different digits exchanged
CallVerhoeffTransposed ==
    /\ vRet = NoCall
    /\ AllDigits12(vIn)
    /\ verhoeffValidate(vIn)
    /\ \E pos \in 1..11 :
          LET swapped == [vIn EXCEPT ![pos] = vIn[pos + 1],
                                     ![pos + 1] = vIn[pos]]
          IN  /\ vIn[pos] # vIn[pos + 1]
              /\ vRet' = [fn |-> "verhoeffTransposed", arg |-> swapped,
                          pos |-> pos, out |-> verhoeffValidate(swapped)]
    /\ UNCHANGED <<vIn, cipherVars, registerVars>>

NextValidator ==
    \/ CallValidateAadhaar
    \/ CallValidateAltered
    \/ CallValidateVariant
    \/ CallVerhoeffTransposed
    \/ CallVerhoeffGenerate
    \/ CallMaskAadhaar

SpecValidator == InitValidator /\ [][NextValidator]_vars

(***************************************************************************)
(* The encryption module: inputs and calls                                 *)
(***************************************************************************)
\* values of the ENCRYPTION_KEY environment variable when the module loads
EnvSecrets == {
    <<>>,                       \* unset (or empty): the default is used
    <<107>>,                    \* "k": shorter than 32, padded
    <<48, 49, 50, 51, 52, 53, 54, 55, 56, 57, 97, 98, 99, 100, 101, 102, 48, 49,
      50, 51, 52, 53, 54, 55, 56, 57, 97, 98, 99, 100, 101, 102, 48, 49, 50, 51,
      52, 53, 54, 55>>,                     \* 40 characters: truncated
    <<99, 108, 233>> }          \* "clé": not ASCII

\* '7', e-acute (2 bytes), euro sign (3 bytes), a high and a low surrogate
TextUnits == {55, 233, 8364, 55357, 56832}

\* U+1F600 as its surrogate pair; "7" e-acute euro
ExampleTexts == {<<55357, 56832>>, <<55, 233, 8364>>}

Texts == ExampleTexts \cup UNION {[1..n -> TextUnits] : n \in 0..MaxText}

\* values crypto.randomBytes(IV_LENGTH) may return
IVs == {RandomBytes(k) : k \in 1..NumIVs}

ValidatorIdle ==
    /\ vIn = <<>>
    /\ vRet = NoCall

InitCipher ==
    /\ envKey \in EnvSecrets
    /\ ENCRYPTION_KEY = LoadEncryptionKey(envKey)
    /\ ProcessFresh
    /\ cText \in Texts
    /\ cEnc = NotCalled
    /\ cArg = <<>>
    /\ cHow = "none"
    /\ cDec = NotCalled
    /\ ValidatorIdle
    /\ RegisterIdle

\* encrypt(cText); its result is the blob a later decrypt is given
Encrypt ==
    /\ cEnc = NotCalled
    /\ \E iv \in IVs :
          /\ cEnc' = encrypt(cText, iv)
          /\ cRandom' = IF encryptDraws(cText) THEN Append(cRandom, iv)
                        ELSE cRandom
          /\ cLog' = cLog \o encryptLog(cText, iv)
    /\ cKeys' = IF encryptDraws(cText) THEN cKeys \cup {getKey} ELSE cKeys
    /\ cArg' = IF cEnc'.status = "return" THEN cEnc'.value ELSE <<>>
    /\ UNCHANGED <<ENCRYPTION_KEY, cText, cHow, cDec, envKey, cEnc2, cHash,
                 validatorVars, registerVars>>

\* encrypt(cText) once more
EncryptAgain ==
    /\ cEnc # NotCalled
    /\ cEnc2 = NotCalled
    /\ \E iv \in IVs :
          /\ cEnc2' = encrypt(cText, iv)
          /\ cRandom' = IF encryptDraws(cText) THEN Append(cRandom, iv)
                        ELSE cRandom
          /\ cLog' = cLog \o encryptLog(cText, iv)
    /\ cKeys' = IF encryptDraws(cText) THEN cKeys \cup {getKey} ELSE cKeys
    /\ UNCHANGED <<ENCRYPTION_KEY, cText, cEnc, cArg, cHow, cDec, envKey,
                 cHash, validatorVars, registerVars>>

\* hash(cText)
CallHash ==
    /\ cHash = NotCalled
    /\ cHash' = Return(hash(cText))
    /\ UNCHANGED <<ENCRYPTION_KEY, cText, cEnc, cArg, cHow, cDec, envKey,
                 cRandom, cEnc2, cKeys, cLog, validatorVars, registerVars>>

\* the environment variable is given another value while the process runs
SetEnv ==
    /\ \E e \in EnvSecrets \ {envKey} : envKey' = e
    /\ UNCHANGED <<ENCRYPTION_KEY, cText, cEnc, cArg, cHow, cDec, cRandom,
                 cEnc2, cKeys, cHash, cLog, validatorVars, registerVars>>

ReplaceAt(s, pos, ch) == [s EXCEPT ![pos] = ch]

\* the stored blob is altered: one hex character of the ciphertext field (2)
\* or of the tag field (3) becomes another hex digit
Tamper ==
    /\ cEnc.status = "return"
    /\ cArg # <<>>
    /\ cHow = "none"
    /\ cDec = NotCalled
    /\ \E f \in {2, 3} :
          LET parts == Split(cArg, CH_COLON) IN
          \E pos \in 1..Len(parts[f]) :
             \E ch \in HexDigits \ {parts[f][pos]} :
                /\ cArg' = Join([parts EXCEPT ![f] = ReplaceAt(parts[f], pos, ch)],
                                CH_COLON)
                /\ cHow' = IF f = 2 THEN "ciphertext" ELSE "tag"
    /\ UNCHANGED <<ENCRYPTION_KEY, cText, cEnc, cDec, processVars,
                 validatorVars, registerVars>>

\* the stored blob is cut or extended to n colon-separated parts (n = 0: the
\* empty string), the parts taken in turn from the blob's own three
Reshape ==
    /\ cEnc.status = "return"
    /\ cArg # <<>>
    /\ cHow = "none"
    /\ cDec = NotCalled
    /\ \E n \in (0..MaxParts) \ {3} :
          LET parts == Split(cArg, CH_COLON) IN
          cArg' = Join([k \in 1..n |-> parts[((k - 1) % 3) + 1]], CH_COLON)
    /\ cHow' = "parts"
    /\ UNCHANGED <<ENCRYPTION_KEY, cText, cEnc, cDec, processVars,
                 validatorVars, registerVars>>

\* decrypt(cArg)
Decrypt ==
    /\ cEnc.status = "return"
    /\ cDec = NotCalled
    /\ cDec' = decrypt(cArg)
    /\ cKeys' = IF decryptUsesKey(cArg) THEN cKeys \cup {getKey} ELSE cKeys
    /\ cLog' = cLog \o decryptLog(cArg)
    /\ UNCHANGED <<ENCRYPTION_KEY, cText, cEnc, cArg, cHow, envKey, cRandom,
                 cEnc2, cHash, validatorVars, registerVars>>

NextCipher ==
    \/ Encrypt
    \/ Tamper
    \/ Reshape
    \/ Decrypt

SpecCipher == InitCipher /\ [][NextCipher]_vars

(***************************************************************************)
(* The registration handler: requests and steps                            *)
(***************************************************************************)
\* identity numbers that satisfy the checksum and the pattern rules
Pool == <<
    Str(<<2, 3, 4, 5, 6, 7, 8, 9, 0, 1, 1, 1>>),
    Str(<<2, 3, 4, 5, 6, 7, 8, 9, 0, 1, 4, 8>>),
    Str(<<2, 3, 4, 5, 6, 7, 8, 9, 0, 3, 7, 0>>),
    Str(<<2, 3, 4, 5, 6, 7, 8, 9, 0, 4, 8, 1>>),
    Str(<<2, 3, 4, 5, 6, 7, 8, 9, 0, 7, 4, 0>>),
    Str(<<2, 3, 4, 5, 6, 7, 8, 9, 0, 8, 8, 8>>),
    Str(<<2, 3, 4, 5, 6, 7, 8, 9, 1, 1, 1, 0>>),
    Str(<<2, 3, 4, 5, 6, 7, 8, 9, 1, 1, 4, 7>>),
    Str(<<2, 3, 4, 5, 6, 7, 8, 9, 1, 4, 8, 0>>),
    Str(<<2, 3, 4, 5, 6, 7, 8, 9, 1, 8, 8, 7>>),
    Str(<<2, 3, 4, 5, 6, 7, 8, 9, 2, 0, 7, 2>>),
    Str(<<2, 3, 4, 5, 6, 7, 8, 9, 2, 2, 2, 0>>),
    Str(<<2, 3, 4, 5, 6, 7, 8, 9, 2, 3, 6, 8>>),
    Str(<<2, 3, 4, 5, 6, 7, 8, 9, 3, 0, 3, 4>>),
    Str(<<2, 3, 4, 5, 6, 7, 8, 9, 3, 1, 4, 5>>),
    Str(<<2, 3, 4, 5, 6, 7, 8, 9, 3, 7, 7, 4>>) >>

\* "2345 6789 0148": the second number of the pool as a form would group it
Spaced == Str(<<2, 3, 4, 5>>) \o SP \o Str(<<6, 7, 8, 9>>) \o SP
              \o Str(<<0, 1, 4, 8>>)

Mobile == Str(<<9, 8, 7, 6, 5, 4, 3, 2, 1, 0>>)

\* a roster of n members: the pool from position first on; member 1 turns 5
\* on the day of the request
Roster(first, n) ==
    [k \in 1..n |->
        [dob       |-> IF k = 1 THEN [Today EXCEPT !.year = @ - 5]
                       ELSE [year |-> 1990, month |-> 1, date |-> 1],
         id_number |-> Pool[first + k - 1],
         mobile    |-> Mobile]]

Body(team_name, members) ==
    [team_name |-> team_name, members_count |-> Len(members),
     consent_given |-> "true", members |-> members]

TeamA == <<65>>         \* "A"
TeamB == <<32, 66>>     \* " B"

\* the request bodies tried
Bodies ==
    LET ra == Roster(1, 10)
        rb == Roster(7, 10)
    IN  { Body(TeamA, ra),
          Body(TeamB, ra),
          Body(TeamB, rb),
          \* a phone number of three characters
          Body(TeamA, [ra EXCEPT ![2].mobile = Str(<<9, 8, 7>>)]),
          \* an identity number typed with spaces
          Body(TeamB, [rb EXCEPT ![2].id_number = Spaced]),
          \* the same identity number twice, once with spaces
          Body(TeamA, [ra EXCEPT ![3].id_number = Spaced]),
          \* the same identity number twice
          Body(TeamA, [ra EXCEPT ![3].id_number = ra[2].id_number]),
          \* a wrong check digit
          Body(TeamA, [ra EXCEPT ![2].id_number =
                          Str(<<2, 3, 4, 5, 6, 7, 8, 9, 0, 1, 4, 9>>)]),
          \* a child of three
          Body(TeamA, [ra EXCEPT ![2].dob =
                          [year |-> Today.year - 4, month |-> Today.month,
                           date |-> Today.date + 1]]),
          \* no phone number, an empty phone number
          Body(TeamA, [ra EXCEPT ![2].mobile = Undefined]),
          Body(TeamA, [ra EXCEPT ![2].mobile = <<>>]),
          \* members_count does not match, too few members, no consent,
          \* a blank team name
          [Body(TeamA, ra) EXCEPT !.members_count = 11],
          Body(TeamA, Roster(1, 9)),
          [Body(TeamA, ra) EXCEPT !.consent_given = "false"],
          Body(SP, ra) }

\* the state of the random source when a request starts
Seeds == {1, 2}

\* secrets the server may run with: the default, and one whose UTF-8 form
\* is longer than its length in characters
RegisterSecrets == {<<>>, <<99, 108, 233>>}

InitRegister ==
    /\ envKey \in RegisterSecrets
    /\ ENCRYPTION_KEY = LoadEncryptionKey(envKey)
    /\ ProcessFresh
    /\ RegisterIdle
    /\ ValidatorIdle
    /\ cText = <<>>
    /\ cEnc = NotCalled
    /\ cArg = <<>>
    /\ cHow = "none"
    /\ cDec = NotCalled

\* a request arrives: express-validator runs (its trim sanitizer rewrites
\* team_name) and the handler starts Team.findOne({ team_name })
Arrive(s, body, seed) ==
    LET r == [req[s] EXCEPT !.body = body, !.seed = seed] IN
    req' = [req EXCEPT ![s] =
               IF ~validationResult(body)
               THEN Respond(r, Response(400, "validation errors"))
               ELSE [r EXCEPT !.pc = "findName",
                              !.body.team_name = Trim(@)]]

PostTeam(s) ==
    /\ req[s].pc = "idle"
    /\ \E body \in Bodies, seed \in Seeds : Arrive(s, body, seed)
    /\ UNCHANGED <<teams, outbox, adm, validatorVars, cipherVars>>

\* the handler without its comparison of members.length and members_count
FindName_NoCountCheck(s) ==
    /\ req[s].pc = "findName"
    /\ LET r          == req[s]
           nameExists == \E t \in teams : t.team_name = r.body.team_name
       IN  req' = [req EXCEPT ![s] =
                      IF nameExists
                      THEN Respond(r, Response(400, "Team name already exists"))
                      ELSE LoopHead([r EXCEPT !.i = 1])]
    /\ UNCHANGED <<teams, outbox, adm, validatorVars, cipherVars>>

\* Team.findOne({ team_name }) answers; the handler runs on to the first
\* member's lookup
FindName(s) ==
    /\ req[s].pc = "findName"
    /\ LET r          == req[s]
           nameExists == \E t \in teams : t.team_name = r.body.team_name
       IN  req' = [req EXCEPT ![s] =
                      IF nameExists
                      THEN Respond(r, Response(400, "Team name already exists"))
                      ELSE IF Len(r.body.members) # r.body.members_count
                      THEN Respond(r, Response(400, "members_count mismatch"))
                      ELSE LoopHead([r EXCEPT !.i = 1])]
    /\ UNCHANGED <<teams, outbox, adm, validatorVars, cipherVars>>

\* a lookup that compares the identity numbers and not their blobs
findOne_ByPlaintext(query) ==
    \E t \in teams : \E k \in 1..Len(t.members) :
       t.members[k].id_number_full = decrypt(query).value

\* Team.findOne({ 'members.id_number_encrypted': query }) finds a team
findOneByEncryptedId(query) ==
    \E t \in teams : \E k \in 1..Len(t.members) :
       t.members[k].id_number_encrypted = query

\* Team.findOne({ 'members.id_number_encrypted': ... }) answers for member i;
\* the handler runs on to the next member's lookup or to the save
FindMember(s) ==
    /\ req[s].pc = "findMember"
    /\ LET r      == req[s]
           exists == findOneByEncryptedId(r.query)
       IN  req' = [req EXCEPT ![s] = LoopTail(r, exists)]
    /\ UNCHANGED <<teams, outbox, adm, validatorVars, cipherVars>>

\* a notification started and not awaited
Notification(fn, id) == [fn |-> fn, team |-> id, outcome |-> "pending"]

\* save() without the unique index on team_name
saveResult_NoUniqueIndex(newTeam) ==
    IF ~ValidTeam(newTeam)
    THEN [error |-> TRUE, stored |-> teams]
    ELSE [error |-> FALSE, stored |-> teams \cup {newTeam}]

\* save() that inserts the document and validates it afterwards
saveResult_InsertBeforeValidate(newTeam) ==
    IF \E t \in teams : t.team_name = newTeam.team_name
    THEN [error |-> TRUE, stored |-> teams]
    ELSE [error |-> ~ValidTeam(newTeam), stored |-> teams \cup {newTeam}]

\* newTeam.save(): document validation, the unique index on team_name, and
\* the insert of the whole document
saveResult(newTeam) ==
    IF \/ ~ValidTeam(newTeam)
       \/ \E t \in teams : t.team_name = newTeam.team_name
    THEN [error |-> TRUE, stored |-> teams]
    ELSE [error |-> FALSE, stored |-> teams \cup {newTeam}]

\* the notifications are started before the save is awaited
notify_BeforeSave(s, error) ==
    {Notification("sendAdminNotification", s),
     Notification("sendUserConfirmation", s)}

\* the statements after await newTeam.save(): not reached when it rejects
notify(s, error) ==
    IF error THEN {}
    ELSE {Notification("sendAdminNotification", s),
          Notification("sendUserConfirmation", s)}

\* newTeam.save() answers; then the notifications are started and 201 is sent
Save(s) ==
    /\ req[s].pc = "save"
    /\ LET r      == req[s]
           result == saveResult(NewTeam(s, r))
       IN  /\ teams' = result.stored
           /\ outbox' = outbox \cup notify(s, result.error)
           /\ req' = [req EXCEPT ![s] =
                         IF result.error
                         THEN Respond(r, Response(500, "Failed to register team"))
                         ELSE Respond(r, Response(201,
                                            "Team registered successfully"))]
    /\ UNCHANGED <<adm, validatorVars, cipherVars>>

NextRegister ==
    \/ \E s \in Slots : PostTeam(s)
    \/ \E s \in Slots : FindName(s)
    \/ \E s \in Slots : FindMember(s)
    \/ \E s \in Slots : Save(s)

SpecRegister == InitRegister /\ [][NextRegister]_vars

(***************************************************************************)
(* Registration, verification and deletion of teams, and the outcome of    *)
(* the notifications.  A team's _id is the slot of the request that stored *)
(* it.                                                                     *)
(***************************************************************************)
MaxClock == 1     \* clock ticks between the insert of a team and an update

\* a string that is no ObjectId: Mongoose cannot cast it
MalformedId == "abc"

\* the :id parameters tried: ids of teams stored now, earlier or never, and
\* a malformed one
AdminIds == Slots \cup {MalformedId}

\* the two bodies tried carry the same team name: a good one, and one whose
\* members_count does not match
AdminBodies ==
    LET ra == Roster(1, 10)
    IN  { Body(TeamA, ra),
          [Body(TeamA, ra) EXCEPT !.members_count = 11] }

\* how a notification can end
Outcomes == {"sent", "failed", "not configured"}

InitAdmin ==
    /\ envKey = <<>>
    /\ ENCRYPTION_KEY = LoadEncryptionKey(envKey)
    /\ ProcessFresh
    /\ RegisterIdle
    /\ ValidatorIdle
    /\ cText = <<>>
    /\ cEnc = NotCalled
    /\ cArg = <<>>
    /\ cHow = "none"
    /\ cDec = NotCalled

PostTeamAdmin(s) ==
    /\ req[s].pc = "idle"
    /\ \E body \in AdminBodies : Arrive(s, body, 1)
    /\ UNCHANGED <<teams, outbox, adm, validatorVars, cipherVars>>

\* res.status(status).json(...) of a verify or delete request
AdminResponse(op, id, status) == [op |-> op, id |-> id, status |-> status]

\* Team.findByIdAndUpdate(id, { submission_status: "verified" }, { new: true })
\* sets the status and, by the timestamps option, updatedAt
findByIdAndUpdate(t, now) ==
    [t EXCEPT !.submission_status = "verified", !.updatedAt = now]

\* PUT /api/teams/:id/verify
Verify(id) ==
    /\ IF id = MalformedId                       \* CastError, caught
       THEN /\ adm' = AdminResponse("verify", id, 500)
            /\ UNCHANGED <<teams, outbox>>
       ELSE IF \A t \in teams : t._id # id         \* updated is null
       THEN /\ adm' = AdminResponse("verify", id, 404)
            /\ UNCHANGED <<teams, outbox>>
       ELSE \E t \in teams, now \in 0..MaxClock :
               /\ t._id = id
               /\ now >= t.updatedAt
               /\ teams' = (teams \ {t}) \cup {findByIdAndUpdate(t, now)}
               /\ outbox' = outbox \cup
                                {Notification("sendVerificationEmail", id)}
               /\ adm' = AdminResponse("verify", id, 200)
    /\ UNCHANGED <<req, validatorVars, cipherVars>>

\* DELETE /api/teams/:id
Delete(id) ==
    /\ IF id = MalformedId                       \* CastError, caught
       THEN /\ adm' = AdminResponse("delete", id, 500)
            /\ UNCHANGED teams
       ELSE IF \A t \in teams : t._id # id         \* deleted is null
       THEN /\ adm' = AdminResponse("delete", id, 404)
            /\ UNCHANGED teams
       ELSE /\ teams' = {t \in teams : t._id # id}
            /\ adm' = AdminResponse("delete", id, 200)
    /\ UNCHANGED <<req, outbox, validatorVars, cipherVars>>

\* a notification of the registration handler ends: the promise settles and
\* the outcome is written to the console only
Settle(n) ==
    /\ n.outcome = "pending"
    /\ n.fn \in {"sendAdminNotification", "sendUserConfirmation"}
    /\ \E outcome \in Outcomes :
          outbox' = (outbox \ {n}) \cup {[n EXCEPT !.outcome = outcome]}
    /\ UNCHANGED <<teams, req, adm, validatorVars, cipherVars>>

NextAdmin ==
    \/ \E s \in Slots : PostTeamAdmin(s)
    \/ \E s \in Slots : FindName(s)
    \/ \E s \in Slots : FindMember(s)
    \/ \E s \in Slots : Save(s)
    \/ \E id \in AdminIds : Verify(id)
    \/ \E id \in AdminIds : Delete(id)
    \/ \E n \in outbox : Settle(n)

SpecAdmin == InitAdmin /\ [][NextAdmin]_vars

(***************************************************************************)
(* One process: the calls of the two modules side by side                  *)
(***************************************************************************)
\* strings handed, as the same value, to the validator and to the cipher
ProcessInputs == {
    <<>>,                   \* ""
    SP,                     \* " "
    TAB \o SP,              \* "\t "
    NBSP,                   \* a no-break space
    Str(<<9, 8, 7>>),       \* "987"
    Pool[1],
    Spaced }

InitProcess ==
    /\ envKey \in RegisterSecrets
    /\ ENCRYPTION_KEY = LoadEncryptionKey(envKey)
    /\ vIn \in ProcessInputs
    /\ cText = vIn
    /\ vRet = NoCall
    /\ cEnc = NotCalled
    /\ cArg = <<>>
    /\ cHow = "none"
    /\ cDec = NotCalled
    /\ ProcessFresh
    /\ RegisterIdle

NextProcess ==
    \/ CallValidateAadhaar
    \/ CallMaskAadhaar
    \/ Encrypt
    \/ EncryptAgain
    \/ Reshape
    \/ Decrypt
    \/ CallHash
    \/ SetEnv

SpecProcess == InitProcess /\ [][NextProcess]_vars

(***************************************************************************)
(* Properties: Checksum Validator                                          *)
(***************************************************************************)
RECURSIVE NoWhitespace(_)
\* s with every whitespace character removed
NoWhitespace(s) ==
    IF s = <<>> THEN <<>>
    ELSE IF Head(s) \in WhiteSpace THEN NoWhitespace(Tail(s))
    ELSE <<Head(s)>> \o NoWhitespace(Tail(s))

RECURSIVE ChecksumState(_, _)
\* c after the first n digits taken from the end: c_0 = 0,
\* c_(i+1) = D[c_i][P[i mod 8][v_i]], v_i the digit i places before the last
ChecksumState(t, n) ==
    IF n = 0 THEN 0
    ELSE LET c == ChecksumState(t, n - 1)
             v == t[Len(t) - (n - 1)] - CH_0
         IN  d[c + 1][p[((n - 1) % 8) + 1][v + 1] + 1]

IsDecimal(t) == \A i \in 1..Len(t) : t[i] \in CH_0..(CH_0 + 9)

Identical(t) == \A i, j \in 1..Len(t) : t[i] = t[j]

DenyListed == {
    Str(<<1, 2, 3, 4, 5, 6, 7, 8, 9, 0, 1, 2>>),
    Str(<<0, 1, 2, 3, 4, 5, 6, 7, 8, 9, 0, 1>>),
    Str(<<0, 9, 8, 7, 6, 5, 4, 3, 2, 1, 0, 9>>),
    Str(<<1, 1, 1, 1, 1, 1, 1, 1, 1, 1, 1, 1>>),
    Str(<<0, 0, 0, 0, 0, 0, 0, 0, 0, 0, 0, 0>>) }

Returned(fn) == vRet.fn = fn

\* C1: for every 11-digit body b, verhoeffValidate(b + verhoeffGenerate(b))
\* is true.
C1_GeneratedDigitValidates ==
    Returned("verhoeffGenerate") => verhoeffValidate(vIn \o vRet.out)

Accepted(s) ==
    LET t == NoWhitespace(s) IN
    /\ Len(t) = 12
    /\ IsDecimal(t)
    /\ ~Identical(t)
    /\ t \notin DenyListed
    /\ t[1] \notin {CH_0, CH_1}
    /\ ChecksumState(t, 12) = 0

\* C2: validateAadhaar(s).valid is true iff s without whitespace is exactly
\* 12 decimal digits, not all identical, not deny-listed, does not start with
\* '0' or '1', and the checksum fold over its reversed digits ends with c = 0.
C2_ValidIff ==
    Returned("validateAadhaar") => (vRet.out.valid <=> Accepted(vIn))

\* a number written with whitespace was accepted
C2_Witness ==
    /\ Returned("validateAadhaar")
    /\ vRet.out.valid
    /\ NoWhitespace(vIn) # vIn

\* the k-th check of the claim's order fails on the stripped input t
Fails(k, t) ==
    CASE k = 1 -> t = <<>>
      [] k = 2 -> Len(t) # 12
      [] k = 3 -> ~IsDecimal(t)
      [] k = 4 -> Identical(t)
      [] k = 5 -> t \in DenyListed
      [] k = 6 -> t[1] \in {CH_0, CH_1}
      [] k = 7 -> ChecksumState(t, Len(t)) # 0

Reasons == <<
    "Aadhaar number is required",
    "Aadhaar must be exactly 12 digits",
    "Aadhaar must contain only digits",
    "Invalid Aadhaar pattern (all same digits)",
    "Invalid Aadhaar pattern (sequential or test number)",
    "Invalid Aadhaar format (cannot start with 0 or 1)",
    "Invalid Aadhaar checksum (Verhoeff algorithm failed)" >>

RECURSIVE FirstFailed(_, _)
\* index of the first check, from k on, that t fails; 0 when it passes all
FirstFailed(t, k) ==
    IF k > 7 THEN 0
    ELSE IF Fails(k, t) THEN k
    ELSE FirstFailed(t, k + 1)

\* C8: the rejection reason is the reason of the first check the stripped
\* input fails, in the order empty, length, non-digit, all identical,
\* deny-list, first digit, checksum; the seven reasons are pairwise distinct.
C8_FirstFailedReason ==
    /\ \A i, j \in 1..7 : i # j => Reasons[i] # Reasons[j]
    /\ Returned("validateAadhaar") =>
          LET k == FirstFailed(NoWhitespace(vIn), 1) IN
          IF k = 0 THEN vRet.out.valid
          ELSE ~vRet.out.valid /\ vRet.out.message = Reasons[k]

\* an input failing the all-identical, the deny-list and the first-digit
\* check at once was rejected for the first of them
C8_Witness ==
    /\ Returned("validateAadhaar")
    /\ LET t == NoWhitespace(vIn) IN
       /\ Len(t) = 12 /\ IsDecimal(t)
       /\ Fails(4, t) /\ Fails(5, t) /\ Fails(6, t)
    /\ vRet.out.message = Reasons[4]

\* C9: every 12-digit string of identical digits and every deny-list member
\* is rejected with one of the two pattern-specific reasons.
C9_PatternRejected ==
    (/\ Returned("validateAadhaar")
     /\ Len(vIn) = 12
     /\ IsDecimal(vIn)
     /\ (Identical(vIn) \/ vIn \in DenyListed))
    => (/\ ~vRet.out.valid
        /\ vRet.out.message \in {Reasons[4], Reasons[5]})

\* a deny-list member that is not made of identical digits was rejected
C9_Witness ==
    /\ Returned("validateAadhaar")
    /\ vIn \in DenyListed
    /\ ~Identical(vIn)
    /\ vRet.out.message = Reasons[5]

\* C10: every string whose first character is '0' or '1' is rejected,
\* whatever its length, its other characters and its checksum.
C10_LeadingZeroOneRejected ==
    (/\ Returned("validateAadhaar")
     /\ vIn # <<>>
     /\ vIn[1] \in {CH_0, CH_1})
    => ~vRet.out.valid

\* a 12-digit number starting with '0' or '1' whose checksum is right, not
\* caught by the pattern checks, was rejected
C10_Witness ==
    /\ Returned("validateAadhaar")
    /\ Len(vIn) = 12 /\ IsDecimal(vIn)
    /\ vIn[1] \in {CH_0, CH_1}
    /\ ChecksumState(vIn, 12) = 0
    /\ ~Identical(vIn) /\ vIn \notin DenyListed
    /\ ~vRet.out.valid

\* whatever the position i and the state c, two different digits lead to two
\* different states, and two different states stay different under a digit
TablesSeparate ==
    /\ \A c \in 0..9, i \in 0..7, v, w \in 0..9 :
          v # w => d[c + 1][p[i + 1][v + 1] + 1] # d[c + 1][p[i + 1][w + 1] + 1]
    /\ \A b, c \in 0..9, i \in 0..7, v \in 0..9 :
          b # c => d[b + 1][p[i + 1][v + 1] + 1] # d[c + 1][p[i + 1][v + 1] + 1]

\* C11: for every 12-digit string s that validateAadhaar accepts, every
\* string that differs from s in exactly one digit is rejected.
C11_SingleDigitErrorRejected ==
    /\ Returned("validateAltered") => ~vRet.out.valid
    /\ TablesSeparate

\* the first digit of an accepted number was replaced by a digit other than
\* '0' and '1', so that only the checksum can reject it, and it was rejected
C11_Witness ==
    /\ Returned("validateAltered")
    /\ vRet.arg[1] # StripWs(vIn)[1]
    /\ vRet.arg[1] \notin {CH_0, CH_1}
    /\ ~vRet.out.valid
    /\ vRet.out.message = Reasons[7]

\* the eight messages a verdict can carry
Messages == {Reasons[k] : k \in 1..7} \cup {"Valid Aadhaar number"}

\* C12: validateAadhaar never throws: for every input string it returns a
\* verdict with a boolean valid and a reason message, and an input that is
\* not 12 digits after the removal of whitespace gets valid = false.
C12_NeverThrows ==
    Returned("validateAadhaar") =>
        /\ DOMAIN vRet.out = {"valid", "message"}
        /\ vRet.out.valid \in BOOLEAN
        /\ vRet.out.message \in Messages
        /\ LET t == NoWhitespace(vIn) IN
           (Len(t) # 12 \/ ~IsDecimal(t)) => ~vRet.out.valid

\* an input of 12 characters that are not all digits, with a non-digit
\* before the last character, got a verdict
C12_Witness ==
    /\ Returned("validateAadhaar")
    /\ LET t == NoWhitespace(vIn) IN
       /\ Len(t) = 12
       /\ \E i \in 1..11 : t[i] \notin CH_0..(CH_0 + 9)
    /\ DOMAIN vRet.out = {"valid", "message"}
    /\ ~vRet.out.valid

\* C21: validateAadhaar is deterministic and idempotent: the verdict depends
\* only on the input with all whitespace removed, so two inputs that differ
\* only in whitespace get the same verdict and reason, and a repeated call on
\* one input returns the same verdict.
C21_VerdictOfStrippedInput ==
    /\ Returned("validateAadhaar") =>
          vRet.out = validateAadhaar(NoWhitespace(vIn))
    /\ Returned("validateVariant") =>
          /\ NoWhitespace(vRet.arg) = NoWhitespace(vIn)
          /\ vRet.out = vRet.first

\* a number accepted when written with whitespace was accepted again with
\* one more whitespace character put into it
C21_Witness ==
    /\ Returned("validateVariant")
    /\ vRet.out.valid
    /\ NoWhitespace(vIn) # vIn
    /\ Len(vRet.arg) = Len(vIn) + 1

\* on the tables as tabulated, at every position i and in every state c, two
\* different digits taken in the two orders lead to two different states
TablesDetectTransposition ==
    \A c \in 0..9, i \in 0..7, v, w \in 0..9 :
        v # w =>
            d[d[c + 1][p[i + 1][v + 1] + 1] + 1][p[((i + 1) % 8) + 1][w + 1] + 1]
          # d[d[c + 1][p[i + 1][w + 1] + 1] + 1][p[((i + 1) % 8) + 1][v + 1] + 1]

\* C30: for every 12-digit string that passes verhoeffValidate, exchanging
\* any two adjacent digits that are different yields a string that fails
\* verhoeffValidate: every adjacent transposition is detected at every
\* position.
C30_AdjacentTranspositionRejected ==
    /\ Returned("verhoeffTransposed") => ~vRet.out
    /\ TablesDetectTransposition
    /\ TablesSeparate

\* the first two digits, then the last two digits of an accepted string
\* were exchanged
C30_Witness ==
    /\ Returned("verhoeffTransposed")
    /\ vRet.pos \in {1, 11}
    /\ vRet.arg # vIn
    /\ ~vRet.out

(***************************************************************************)
(* Properties: masking                                                     *)
(***************************************************************************)
\* s with every character except the last n replaced by '*'
Masked(s, n) ==
    [i \in 1..Len(s) |->
        IF Len(s) < n \/ i <= Len(s) - n THEN CH_STAR ELSE s[i]]

\* C6: maskAadhaar(s, visibleCount) returns s with every character except the
\* last visibleCount replaced by '*', and only '*' when s is shorter than
\* visibleCount.
C6_MaskAadhaarIsMask ==
    Returned("maskAadhaar") => vRet.out = Masked(vIn, vRet.visible)

\* C29: for every string s and every visibleDigits >= 0, maskAadhaar(s,
\* visibleDigits) has the length of s with its whitespace removed and shows at
\* most visibleDigits characters of it: every other position is '*'.
C29_MaskLengthAndStars ==
    Returned("maskAadhaar") =>
        /\ Len(vRet.out) = Len(NoWhitespace(vIn))
        /\ \A i \in 1..Len(vRet.out) :
              i <= Len(vRet.out) - vRet.visible => vRet.out[i] = CH_STAR

(***************************************************************************)
(* Properties: PII cipher                                                  *)
(***************************************************************************)
Decrypted == cDec.status # "none"

\* number of colon-separated parts of a string
PartCount(s) == 1 + Cardinality({i \in 1..Len(s) : s[i] = CH_COLON})

\* no surrogate code unit outside a high-low pair
WellFormed(s) ==
    \A i \in 1..Len(s) :
       /\ s[i] \in 55296..56319 => (i < Len(s) /\ s[i + 1] \in 56320..57343)
       /\ s[i] \in 56320..57343 => (i > 1 /\ s[i - 1] \in 55296..56319)

C4_NotThreePartsFails ==
    (Decrypted /\ (cArg = <<>> \/ PartCount(cArg) # 3))
    => cDec = [status |-> "throw", error |-> "Failed to decrypt data"]

\* C4, amended: decrypt fails with 'Failed to decrypt data', the error of a
\* tag mismatch, for every non-empty blob that does not split into exactly
\* three colon-separated parts; decrypt of the empty string returns the
\* empty string.
C4_NonEmptyNotThreePartsFails ==
    /\ (Decrypted /\ cArg # <<>> /\ PartCount(cArg) # 3)
          => cDec = [status |-> "throw", error |-> "Failed to decrypt data"]
    /\ (Decrypted /\ cHow = "tag")
          => cDec = [status |-> "throw", error |-> "Failed to decrypt data"]
    /\ (Decrypted /\ cArg = <<>>)
          => cDec = [status |-> "return", value |-> <<>>]

\* a blob of four parts was refused
C4_Witness ==
    /\ Decrypted
    /\ cHow = "parts"
    /\ PartCount(cArg) = 4
    /\ cDec.status = "throw"

\* C5: a blob with one hex character of its ciphertext or tag field replaced
\* by another hex digit is never decrypted: decrypt fails, it returns no
\* plaintext.
C5_TamperDetected ==
    (Decrypted /\ cHow \in {"ciphertext", "tag"}) => cDec.status = "throw"

\* decrypt refused a blob whose ciphertext field was altered
C5_Witness ==
    /\ Decrypted
    /\ cHow = "ciphertext"
    /\ cText # <<>>
    /\ cDec.status = "throw"

(***************************************************************************)
(* Properties: one process                                                 *)
(***************************************************************************)
\* C13: encrypt("") returns "": no IV is drawn and no blob is produced; and
\* validateAadhaar of the empty string, or of a string made only of
\* whitespace, returns valid = false with 'Aadhaar number is required'.
C13_EmptyInputs ==
    /\ (cText = <<>> /\ cEnc # NotCalled)
          => (cEnc = [status |-> "return", value |-> <<>>] /\ cRandom = <<>>)
    /\ (cText = <<>> /\ cEnc2 # NotCalled)
          => (cEnc2 = [status |-> "return", value |-> <<>>] /\ cRandom = <<>>)
    /\ (Returned("validateAadhaar") /\ NoWhitespace(vIn) = <<>>)
          => vRet.out = [valid |-> FALSE, message |-> Reasons[1]]

\* the empty string went through encrypt and through validateAadhaar
C13_Witness ==
    /\ cText = <<>>
    /\ cEnc = [status |-> "return", value |-> <<>>]
    /\ cRandom = <<>>
    /\ vIn = <<>>
    /\ Returned("validateAadhaar")
    /\ vRet.out.message = Reasons[1]

\* C14: for every configured secret, the key getKey returns is exactly 32
\* bytes long (the secret padded on the right with '0', or cut to its first
\* 32 characters), so cipher creation never fails because of the key length.
C14_KeyIs32Bytes ==
    /\ Len(getKey) = 32
    /\ \A i \in 1..Len(cLog) : cLog[i].error # "Invalid key length"

\* C15: every encrypt call on a non-empty plaintext draws a new 16-byte IV,
\* whatever was drawn before; two calls with the same plaintext return
\* different blobs whenever their IVs differ.
C15_FreshIVDifferentBlobs ==
    cText # <<>> =>
       /\ Len(cRandom) = (IF cEnc = NotCalled THEN 0 ELSE 1)
                             + (IF cEnc2 = NotCalled THEN 0 ELSE 1)
       /\ \A i \in 1..Len(cRandom) : Len(cRandom[i]) = 16
       /\ (cEnc2 # NotCalled /\ cRandom[1] # cRandom[2])
             => /\ cEnc.status = "return"
                /\ cEnc2.status = "return"
                /\ cEnc.value # cEnc2.value

(***************************************************************************)
(* Properties: console, blob format, key                                   *)
(***************************************************************************)
\* the strings that must not appear on the console: the plaintext (identity
\* or phone number), the secret and the key made from it
Secrets == {cText, vIn, ENCRYPTION_KEY, envKey, getKey}

\* the messages of the Error objects the crypto library and decrypt create
ErrorMessages == {
    "Invalid key length",
    "Invalid initialization vector",
    "Invalid authentication tag length",
    "Unsupported state or unable to authenticate data",
    "Invalid encrypted data format" }

\* a console line made of a fixed label and a fixed message, with no string
\* of the call printed along
Harmless(line) ==
    /\ line.label \in {"Encryption error:", "Decryption error:"}
    /\ line.error \in ErrorMessages
    /\ \A j \in 1..Len(line.data) : line.data[j] \notin Secrets

RECURSIVE Utf8Length(_)
Utf8Length(s) ==
    IF s = <<>> THEN 0
    ELSE IF Head(s) < 128 THEN 1 + Utf8Length(Tail(s))
    ELSE IF Head(s) < 2048 THEN 2 + Utf8Length(Tail(s))
    ELSE IF /\ Head(s) \in 55296..56319
            /\ Len(s) >= 2
            /\ s[2] \in 56320..57343 THEN 4 + Utf8Length(Tail(Tail(s)))
    ELSE 3 + Utf8Length(Tail(s))

IsHex(s) == \A i \in 1..Len(s) : s[i] \in (48..57) \cup (97..102)

\* C19: for every non-empty plaintext of n UTF-8 bytes, encrypt returns a
\* string of exactly three ':'-separated hexadecimal fields, IV, ciphertext
\* and tag in this order, of 32, 2n and 32 hex characters.
C19_BlobFormat ==
    (cText # <<>> /\ cEnc # NotCalled) =>
       /\ cEnc.status = "return"
       /\ PartCount(cEnc.value) = 3
       /\ LET parts == Split(cEnc.value, CH_COLON) IN
          /\ \A k \in 1..3 : IsHex(parts[k])
          /\ Len(parts[1]) = 32
          /\ Len(parts[2]) = 2 * Utf8Length(cText)
          /\ Len(parts[3]) = 32
          /\ FromHex(parts[1]) = cRandom[1]

\* C20: every encrypt and decrypt call of one process uses the same key, the
\* one fixed when the module was loaded: a later change of the environment
\* variable does not change it, and no encrypt, decrypt or hash call does.
C20_KeyFixed ==
    [][/\ ENCRYPTION_KEY' = ENCRYPTION_KEY
       /\ Cardinality(cKeys') <= 1
       /\ (cKeys # {} => cKeys' = cKeys)
      ]_vars

\* the environment variable no longer holds the loaded secret, and encrypt
\* (twice) and decrypt have used one key
C20_Witness ==
    /\ LoadEncryptionKey(envKey) # ENCRYPTION_KEY
    /\ cEnc.status = "return"
    /\ cEnc2.status = "return"
    /\ cDec.status = "return"
    /\ cHash # NotCalled
    /\ Cardinality(cKeys) = 1

(***************************************************************************)
(* Properties: registration handler                                        *)
(***************************************************************************)
\* request slot s was answered 201: its processedMembers are the team stored
Registered(s) == req[s].response.status = 201

Candidate(s) == req[s].body.members[req[s].i].id_number

\* the stored blobs of the identity number x
StoredBlobs(x) ==
    UNION {{t.members[k].id_number_encrypted :
               k \in {j \in 1..Len(t.members) :
                         t.members[j].id_number_full = x}} : t \in teams}

\* the IV field of a blob
IVField(blob) == Split(blob, CH_COLON)[1]

\* C16: the cross-team duplicate lookup compares the candidate, encrypted
\* again with a fresh IV, with the stored id_number_encrypted values: when the
\* fresh IV differs from the IV of every stored blob of the same identity
\* number, the lookup finds nothing although the number is stored, and the
\* submission is not rejected as already registered.
C16_LookupMissesDuplicate ==
    [][\A s \in Slots :
          (/\ req[s].pc = "findMember"
           /\ req'[s] # req[s]
           /\ StoredBlobs(Candidate(s)) # {}
           /\ \A b \in StoredBlobs(Candidate(s)) :
                 IVField(b) # IVField(req[s].query))
          => req'[s].response.message # "Aadhaar of member already registered"
      ]_vars

\* one identity number is stored in two teams
C16_Witness ==
    \E t1, t2 \in teams :
       /\ t1 # t2
       /\ \E k1 \in 1..Len(t1.members), k2 \in 1..Len(t2.members) :
             t1.members[k1].id_number_full = t2.members[k2].id_number_full

\* C17: encrypt is called on an identity number only after validateAadhaar
\* accepted it in the same request, and every value encrypted and stored as an
\* identity number is itself a string of exactly 12 digits that satisfies the
\* checksum.
C17_OnlyValidatedNumbersEncrypted ==
    /\ \A s \in Slots :
          /\ req[s].pc = "findMember" => validateAadhaar(Candidate(s)).valid
          /\ \A k \in 1..Len(req[s].processedMembers) :
                validateAadhaar(req[s].processedMembers[k].id_number_full).valid
    /\ \A t \in teams : \A k \in 1..Len(t.members) :
          LET x == t.members[k].id_number_full IN
          /\ Len(x) = 12
          /\ IsDecimal(x)
          /\ ChecksumState(x, 12) = 0
          /\ decrypt(t.members[k].id_number_encrypted)
                = [status |-> "return", value |-> x]

\* the identity numbers of a roster or of a stored team, as 12-digit numbers
Numbers(members, field) ==
    [k \in 1..Len(members) |-> NoWhitespace(members[k][field])]

\* two members carry the same number
Repeats(numbers) ==
    \E j, k \in 1..Len(numbers) : j # k /\ numbers[j] = numbers[k]

\* C22: a registration whose roster contains the same identity number for two
\* members is rejected with 400 'Duplicate Aadhaar at member i', so in every
\* stored team the members' identity numbers, compared after the whitespace
\* stripping that validation applies, are pairwise distinct.
C22_NoDuplicateInTeam ==
    /\ \A t \in teams : ~Repeats(Numbers(t.members, "id_number_full"))
    /\ \A s \in Slots :
          (/\ req[s].pc = "done"
           /\ Repeats(Numbers(req[s].body.members, "id_number")))
          => req[s].response.status = 400

\* C23: after any sequence of registration requests no identity number is
\* stored in more than one team: a registration containing an identity number
\* already stored in another team is rejected with 400 'Aadhaar of member i
\* already registered'.
C23_NoNumberInTwoTeams ==
    \A t, u \in teams :
        t # u =>
            \A j \in 1..Len(t.members), k \in 1..Len(u.members) :
                NoWhitespace(t.members[j].id_number_full)
                    # NoWhitespace(u.members[k].id_number_full)

\* C24: under any interleaving of concurrent registration requests at most
\* one team with a given team_name is stored: a request whose team_name is
\* the name of a stored team gets 400 'Team name already exists', and two
\* concurrent requests with the same new name do not both end with a stored
\* team.
C24_OneTeamPerName ==
    [][/\ \A t, u \in teams' : t.team_name = u.team_name => t = u
       /\ \A s \in Slots :
             (/\ req[s].pc = "findName"
              /\ req'[s] # req[s]
              /\ \E t \in teams : t.team_name = req[s].body.team_name)
             => req'[s].response = Response(400, "Team name already exists")
       /\ \A s1, s2 \in Slots :
             (/\ s1 # s2
              /\ req'[s1].body.team_name = req'[s2].body.team_name
              /\ req'[s1].response.status = 201)
             => req'[s2].response.status # 201
      ]_vars

\* two requests with the same new name both passed the name lookup and both
\* reached save() with a valid document: one was stored, the other refused
C24_Witness ==
    \E s1, s2 \in Slots :
       /\ s1 # s2
       /\ req[s1].body.team_name = req[s2].body.team_name
       /\ req[s1].response.status = 201
       /\ req[s2].response.status = 500
       /\ Len(req[s2].processedMembers) = Len(req[s2].body.members)
       /\ ValidTeam(NewTeam(s2, req[s2]))
       /\ Cardinality(teams) = 1

\* the team stored by request s, if any
StoredBy(s) == {t \in teams : t._id = s}

\* C26: a registration request that ends with any response other than 201 (a
\* 400 or a 500) leaves the stored set of teams unchanged: no member of its
\* roster is persisted, so a roster is stored entirely or not at all.
C26_RejectedStoresNothing ==
    [][\A s \in Slots :
          (req[s].pc # "done" /\ req'[s].pc = "done") =>
              IF req'[s].response.status = 201
              THEN /\ \E t \in teams' :
                         /\ teams' = teams \cup {t}
                         /\ t._id = s
                         /\ Len(t.members) = Len(req[s].body.members)
                         /\ \A k \in 1..Len(t.members) :
                               t.members[k].id_number_full
                                   = req[s].body.members[k].id_number
              ELSE /\ req'[s].response.status \in {400, 500}
                   /\ teams' = teams
                   /\ StoredBy(s) = {}
      ]_vars

\* a request whose last member was processed was refused by save() because of
\* a member's empty phone number, while the other request's team is stored
C26_Witness ==
    \E s1, s2 \in Slots :
       /\ req[s1].pc = "done"
       /\ req[s1].response.status = 500
       /\ Len(req[s1].processedMembers) = Len(req[s1].body.members)
       /\ ~ValidTeam(NewTeam(s1, req[s1]))
       /\ StoredBy(s1) = {}
       /\ StoredBy(s2) # {}

(***************************************************************************)
(* Properties: registration, verification and deletion                     *)
(***************************************************************************)
\* every stored team has 10 to 15 members and counts them right
CountsRight(stored) ==
    \A t \in stored :
        /\ Len(t.members) \in 10..15
        /\ t.members_count = Len(t.members)

\* the roster of request r is not as long as its members_count says
Mismatch(r) == r.body.members_count # Len(r.body.members)

\* C25 as stated: after any sequence of register, verify and delete requests
\* every stored team has between 10 and 15 members and its members_count is
\* the number of its members; a request whose members_count differs from the
\* roster length is rejected with 400 'members_count mismatch'.
C25_CountMatches ==
    /\ CountsRight(teams)
    /\ \A s \in Slots :
          (req[s].pc = "done" /\ Mismatch(req[s]))
          => req[s].response = Response(400, "members_count mismatch")

\* C25, amended: after any sequence of register, verify and delete requests
\* every stored team has between 10 and 15 members and its members_count is
\* the number of its members; a request whose members_count differs from the
\* roster length is rejected with status 400, and with the message
\* 'members_count mismatch' when it passes the request validation and its
\* team name is not the name of a stored team.
C25_CountMatchesNameFree ==
    [][/\ CountsRight(teams')
       /\ \A s \in Slots :
             /\ (req'[s].pc = "done" /\ Mismatch(req'[s]))
                => req'[s].response.status = 400
             /\ (/\ req[s].pc = "findName"
                 /\ req'[s] # req[s]
                 /\ Mismatch(req[s])
                 /\ \A t \in teams : t.team_name # req[s].body.team_name)
                => req'[s].response = Response(400, "members_count mismatch")
      ]_vars

\* a request was rejected for its count while a verified team is stored and
\* a delete request was served
C25_Witness ==
    /\ \E s \in Slots :
          req[s].response = Response(400, "members_count mismatch")
    /\ \E t \in teams : t.submission_status = "verified"
    /\ adm.op = "delete"

\* the team with identifier id, as a set
TeamOf(stored, id) == {t \in stored : t._id = id}

\* C27: a team is stored with submission_status 'pending'; a verify request on
\* an existing team sets it to 'verified' and changes no other field of the
\* team; verify is idempotent and no request returns a verified team to
\* 'pending'; verify or delete of an id that is not stored answers 404 and
\* changes nothing.
C27_StatusLifecycle ==
    [][/\ \A id \in Slots :
          \A t \in TeamOf(teams', id) :
             IF TeamOf(teams, id) = {}
             THEN t.submission_status = "pending"
             ELSE \A u \in TeamOf(teams, id) :
                     /\ t \in {u, [u EXCEPT !.submission_status = "verified"]}
                     /\ u.submission_status = "verified" => t = u
       /\ (/\ adm' # adm
           /\ adm'.op = "verify"
           /\ TeamOf(teams, adm'.id) # {})
          => /\ adm'.status = 200
             /\ \A t \in TeamOf(teams', adm'.id) :
                   t.submission_status = "verified"
       /\ (adm' # adm /\ TeamOf(teams, adm'.id) = {})
          => /\ adm'.status = 404
             /\ teams' = teams
      ]_vars

\* the notifications of the registration handler
RegistrationMails == {"sendAdminNotification", "sendUserConfirmation"}

\* what was dispatched, whatever its outcome
Dispatched(box) == {<<n.fn, n.team>> : n \in box}

\* C28: the registration handler dispatches notifications only after the team
\* was saved, and their outcome (success, failure, missing configuration)
\* changes neither the 201 response nor the stored team; a rejected request
\* dispatches no notification.
C28_NotifyAfterSave ==
    [][/\ \A n \in outbox' \ outbox :
             n.fn \in RegistrationMails =>
                IF <<n.fn, n.team>> \in Dispatched(outbox)
                THEN /\ n.outcome \in Outcomes        \* a notification ended
                     /\ teams' = teams
                     /\ req' = req
                ELSE /\ n.outcome = "pending"         \* a notification started
                     /\ req[n.team].pc = "save"
                     /\ req'[n.team].response.status = 201
                     /\ TeamOf(teams', n.team) # {}
       /\ \A s \in Slots :
             (req'[s].pc = "done" /\ req'[s].response.status # 201)
             => \A fn \in RegistrationMails :
                   <<fn, s>> \notin Dispatched(outbox')
       /\ \A s \in Slots :
             (req'[s].pc = "done" /\ req'[s].response.status = 201)
             => \A fn \in RegistrationMails :
                   <<fn, s>> \in Dispatched(outbox')
      ]_vars

\* one request was answered 201, its team is stored, one of its notifications
\* failed and the other was not configured; the other request was rejected
C28_Witness ==
    \E s1, s2 \in Slots :
       /\ req[s1].response.status = 201
       /\ TeamOf(teams, s1) # {}
       /\ [fn |-> "sendAdminNotification", team |-> s1,
           outcome |-> "failed"] \in outbox
       /\ [fn |-> "sendUserConfirmation", team |-> s1,
           outcome |-> "not configured"] \in outbox
       /\ req[s2].pc = "done"
       /\ req[s2].response.status \in {400, 500}

====
